---- MODULE Spec2Model ----
(***************************************************************************)
(* leaflets2ndx (src/main.c): assigns every lipid residue of a membrane    *)
(* selection to the upper or lower leaflet by the position of its single   *)
(* head-group (phosphate) atom relative to the membrane center along z,    *)
(* collects the residues into 2K index groups (K residue names, two        *)
(* leaflets each) and writes the groups in Gromacs ndx format.             *)
(*                                                                         *)
(* One run of main() is modelled statement block by statement block.  The  *)
(* groan library calls (load_gro, smart_select, selection_splitbyres,      *)
(* selection_intersect, distance1D, ...) are modelled by their contracts.  *)
(* Lengths are integers in units of the grid spacing of the positions.     *)
(***************************************************************************)
EXTENDS Integers, Sequences, FiniteSets, TLC

\* ---------------------------------------------------------------- bounds
\* number of atoms of the loaded structure
NAtoms == 3
\* box edge along z (grid units); positions are 0 .. BoxZ-1
BoxZ == 3
\* largest selection written by the write_ndx_group specification
MaxWriteAtoms == 32

\* numbers per line of the ndx output, main.c:98
PerLine == 15

Atoms == 0 .. (NAtoms - 1)
ResidueNumbers == {1, 2}
ResidueNames == {"POPC", "POPG"}

VARIABLES
    pc,              \* position in main()
    empty,           \* -e flag
    output_file,     \* -o argument: "NULL" or a path
    system,          \* system_t *system
    ndx_groups,      \* dict_t *ndx_groups: "NULL" or "dict"
    all,             \* atom_selection_t *all
    membrane,        \* atom_selection_t *membrane
    phosphates,      \* atom_selection_t *phosphates
    residue_names,   \* list_t *residue_names
    lipids_leaflets, \* atom_selection_t **lipids_leaflets
    n_groups,        \* size_t n_groups of main
    residues,        \* create_groups: atom_selection_t **residues
    center,          \* create_groups: vec_t center (z component)
    cg_i,            \* create_groups: loop index i
    classification,  \* create_groups: classification of the residue handled last
    output,          \* FILE *output: "unset", "NULL", "stdout", "file"
    w_i,             \* main: loop index i of the writing loop
    w_sel,           \* write_ndx_group: selection being written (its own specification)
    w_name,          \* write_ndx_group: name being written (its own specification)
    out,             \* what has been written to the output stream
    stderr,          \* messages printed to stderr by main.c
    arguments,       \* return value of get_arguments, -1 before the call
    return_code,     \* int return_code of main; the exit code once pc = "exit"
    heap,            \* state of every resource the run acquires
    core_ran         \* create_groups has been entered

vars == <<pc, empty, output_file, system, ndx_groups, all, membrane, phosphates,
          residue_names, lipids_leaflets, n_groups, residues, center, cg_i,
          classification, output, w_i, w_sel, w_name, out, stderr, arguments,
          return_code, heap, core_ran>>

\* ------------------------------------------------------------ data model
\* a nullable pointer to a selection: atoms is the ordered list of atom indices
NULLSEL == [null |-> TRUE, atoms |-> <<>>]
Sel(s) == [null |-> FALSE, atoms |-> s]

\* a nullable pointer to the loaded system
NULLSYS == [null |-> TRUE, resnum |-> <<>>, resname |-> <<>>, z |-> <<>>]

\* atoms of a structure: the residue name is a property of the residue.
\* Only positions relative to the center matter, so the first atom is put
\* at z = 0 (the center ranges over the whole box).
Systems ==
    { [null |-> FALSE,
       resnum |-> rn,
       resname |-> [a \in Atoms |-> nm[rn[a]]],
       z |-> pz] :
        rn \in [Atoms -> ResidueNumbers],
        nm \in [ResidueNumbers -> ResidueNames],
        pz \in {f \in [Atoms -> 0 .. (BoxZ - 1)] : f[0] = 0} }

\* atom->gmx_atom_number: atoms are numbered from 1 in the structure file
gmx_atom_number(a) == a + 1

RECURSIVE SeqOfSet(_)
SeqOfSet(S) ==
    IF S = {} THEN <<>>
    ELSE LET m == CHOOSE x \in S : \A y \in S : x <= y
         IN <<m>> \o SeqOfSet(S \ {m})

\* select_system: all atoms of the system in file order
select_system(sys) == Sel(SeqOfSet(Atoms))

\* the selections smart_select can return for a query that parses: any
\* subset of the atoms of `all`, in the order of `all`
Selections == { Sel(SeqOfSet(S)) : S \in SUBSET Atoms }

Range(s) == { s[k] : k \in 1 .. Len(s) }

RECURSIVE SelectSeq2(_, _)
\* the subsequence of s of the elements in set S
SelectSeq2(s, S) ==
    IF s = <<>> THEN <<>>
    ELSE (IF Head(s) \in S THEN <<Head(s)>> ELSE <<>>) \o SelectSeq2(Tail(s), S)

\* selection_intersect: the atoms of selection a that are also in selection b
selection_intersect(a, b) == Sel(SelectSeq2(a.atoms, Range(b.atoms)))

RECURSIVE FirstOccurrences(_, _)
FirstOccurrences(s, seen) ==
    IF s = <<>> THEN <<>>
    ELSE IF Head(s) \in seen THEN FirstOccurrences(Tail(s), seen)
    ELSE <<Head(s)>> \o FirstOccurrences(Tail(s), seen \cup {Head(s)})

\* selection_splitbyres: one selection per residue number, residues in order
\* of first appearance, atoms in their original order
selection_splitbyres(sys, sel) ==
    LET nums == FirstOccurrences([k \in 1 .. Len(sel.atoms) |-> sys.resnum[sel.atoms[k]]], {})
    IN [r \in 1 .. Len(nums) |->
            Sel(SelectSeq2(sel.atoms, {a \in Atoms : sys.resnum[a] = nums[r]}))]

\* selection_getresnames: the distinct residue names in order of first occurrence
selection_getresnames(sys, sel) ==
    FirstOccurrences([k \in 1 .. Len(sel.atoms) |-> sys.resname[sel.atoms[k]]], {})

\* list_index: index (from 0) of the first item equal to name, -1 if absent
list_index(list, name) ==
    IF \E k \in 1 .. Len(list) : list[k] = name
    THEN (CHOOSE k \in 1 .. Len(list) :
              list[k] = name /\ \A j \in 1 .. (k - 1) : list[j] # name) - 1
    ELSE -1

\* list_get: item at index (from 0), "NULL" if out of range
list_get(list, index) ==
    IF index >= 0 /\ index < Len(list) THEN list[index + 1] ELSE "NULL"

RECURSIVE WrapDown(_), WrapUp(_)
WrapDown(dx) == IF 2 * dx > BoxZ THEN WrapDown(dx - BoxZ) ELSE dx
WrapUp(dx) == IF 2 * dx < -BoxZ THEN WrapUp(dx + BoxZ) ELSE dx

\* distance1D(a, b, z, box): signed distance a - b along z under the
\* minimum image convention
distance1D(a, b) == WrapUp(WrapDown(a - b))

\* selection_add: appends the atoms of `toadd` to `sel`
selection_add(sel, toadd) == Sel(sel.atoms \o toadd.atoms)

\* ------------------------------------------------------------- resources
Resources == {"system", "ndx_groups", "all", "membrane", "phosphates",
              "residue_names", "residues", "lipids_leaflets", "allocated",
              "phosphate", "output"}

\* malloc/calloc/fopen and the library constructors: the resource is now held
\* (acquiring over a resource still held loses it: "leaked")
Acquire(h, r) ==
    [h EXCEPT ![r] = CASE @ \in {"unacquired", "freed"} -> "held"
                       [] @ = "held" -> "leaked"
                       [] OTHER -> @]

\* free/fclose and the library destructors; free(NULL) does nothing
Release(h, r) ==
    [h EXCEPT ![r] = CASE @ = "held" -> "freed"
                       [] @ = "freed" -> "doublefree"
                       [] OTHER -> @]

RECURSIVE ReleaseAll(_, _)
ReleaseAll(h, rs) ==
    IF rs = <<>> THEN h ELSE ReleaseAll(Release(h, Head(rs)), Tail(rs))

\* ------------------------------------------------------------ the writer
RECURSIVE Pad4(_)
\* the field of "%4ld": right-aligned to a width of at least 4
Pad4(s) == IF Len(s) < 4 THEN Pad4(" " \o s) ELSE s

\* fprintf(stream, "[ %s ]\n", name)
fprintf_header(stream, name) == Append(stream, "[ " \o name \o " ]\n")

\* the line break tested on i instead of i + 1
write_atom_break_on_i(stream, sel, i) ==
    LET s1 == Append(stream, Pad4(ToString(gmx_atom_number(sel.atoms[i + 1]))) \o " ")
    IN IF i % PerLine = 0 \/ i + 1 = Len(sel.atoms)
       THEN Append(s1, "\n")
       ELSE s1

\* one iteration of the loop of write_ndx_group, i counted from 0
write_atom(stream, sel, i) ==
    LET s1 == Append(stream, Pad4(ToString(gmx_atom_number(sel.atoms[i + 1]))) \o " ")
    IN IF (i + 1) % PerLine = 0 \/ i + 1 = Len(sel.atoms)
       THEN Append(s1, "\n")
       ELSE s1

RECURSIVE write_loop(_, _, _)
write_loop(stream, sel, i) ==
    IF i < Len(sel.atoms) THEN write_loop(write_atom(stream, sel, i), sel, i + 1)
    ELSE stream

write_ndx_group(stream, name, sel) == write_loop(fprintf_header(stream, name), sel, 0)

\* the leaflet suffixes exchanged
group_name_swapped(resname, i) == resname \o (IF i % 2 = 0 THEN "_upper" ELSE "_lower")

\* strncpy(group_name, resname, 99) and strcat of the leaflet suffix
group_name(resname, i) == resname \o (IF i % 2 = 0 THEN "_lower" ELSE "_upper")

\* ------------------------------------------------------------------ main
Msg(text, resname, resid) == [text |-> text, resname |-> resname, resid |-> resid]

NULLGROUPS == [null |-> TRUE, groups |-> <<>>]

Idle ==
    /\ empty = 0
    /\ output_file = "NULL"
    /\ system = NULLSYS
    /\ ndx_groups = "NULL"
    /\ all = NULLSEL
    /\ membrane = NULLSEL
    /\ phosphates = NULLSEL
    /\ residue_names = <<>>
    /\ lipids_leaflets = NULLGROUPS
    /\ n_groups = 0
    /\ residues = <<>>
    /\ center = 0
    /\ cg_i = 0
    /\ classification = 0
    /\ output = "unset"
    /\ w_i = 0
    /\ out = <<>>
    /\ stderr = <<>>
    /\ arguments = -1
    /\ return_code = 0
    /\ heap = [r \in Resources |-> "unacquired"]
    /\ core_ran = FALSE

\* main.c:200-207: the defaults of main before get_arguments
Init ==
    /\ pc = "get_arguments"
    /\ w_sel = NULLSEL
    /\ w_name = ""
    /\ Idle

\* main.c:209-212 with get_arguments (22-76): the options are parsed; -h, an
\* unknown option or a missing -c print the usage and return 1
GetArgumentsFail ==
    /\ pc = "get_arguments"
    /\ arguments' = 1
    /\ return_code' = 1
    /\ pc' = "exit"
    /\ UNCHANGED <<empty, output_file, system, ndx_groups, all, membrane, phosphates,
                   residue_names, lipids_leaflets, n_groups, residues, center, cg_i,
                   classification, output, w_i, w_sel, w_name, out, stderr, heap,
                   core_ran>>

GetArguments ==
    /\ pc = "get_arguments"
    /\ \E e \in {0, 1}, o \in {"NULL", "out.ndx"} :
          /\ empty' = e
          /\ output_file' = o
    /\ arguments' = 0
    /\ pc' = "load_gro"
    /\ UNCHANGED <<system, ndx_groups, all, membrane, phosphates, residue_names,
                   lipids_leaflets, n_groups, residues, center, cg_i, classification,
                   output, w_i, w_sel, w_name, out, stderr, return_code, heap,
                   core_ran>>

\* main.c:215-216: load_gro returns NULL for a missing or malformed file
LoadGroFail ==
    /\ pc = "load_gro"
    /\ system' = NULLSYS
    /\ return_code' = 1
    /\ pc' = "exit"
    /\ UNCHANGED <<empty, output_file, ndx_groups, all, membrane, phosphates,
                   residue_names, lipids_leaflets, n_groups, residues, center, cg_i,
                   classification, output, w_i, w_sel, w_name, out, stderr, arguments,
                   heap, core_ran>>

LoadGro ==
    /\ pc = "load_gro"
    /\ \E sys \in Systems : system' = sys
    /\ heap' = Acquire(heap, "system")
    /\ pc' = "read_ndx"
    /\ UNCHANGED <<empty, output_file, ndx_groups, all, membrane, phosphates,
                   residue_names, lipids_leaflets, n_groups, residues, center, cg_i,
                   classification, output, w_i, w_sel, w_name, out, stderr, arguments,
                   return_code, core_ran>>

\* main.c:218-222: read_ndx may fail (NULL), which is ignored; all atoms are selected
ReadNdx ==
    /\ pc = "read_ndx"
    /\ \E d \in {"NULL", "dict"} :
          /\ ndx_groups' = d
          /\ heap' = Acquire(IF d = "dict" THEN Acquire(heap, "ndx_groups") ELSE heap, "all")
    /\ all' = select_system(system)
    /\ pc' = "select_membrane"
    /\ UNCHANGED <<empty, output_file, system, membrane, phosphates, residue_names,
                   lipids_leaflets, n_groups, residues, center, cg_i, classification,
                   output, w_i, w_sel, w_name, out, stderr, arguments, return_code,
                   core_ran>>

\* the result of the membrane query is used without the test for NULL
SelectMembraneNullUnchecked ==
    /\ pc = "select_membrane"
    /\ membrane' = NULLSEL
    /\ pc' = "select_phosphates"
    /\ UNCHANGED <<empty, output_file, system, ndx_groups, all, phosphates,
                   residue_names, lipids_leaflets, n_groups, residues, center, cg_i,
                   classification, output, w_i, w_sel, w_name, out, stderr, arguments,
                   return_code, heap, core_ran>>

\* main.c:225-233: the membrane query cannot be parsed
SelectMembraneNull ==
    /\ pc = "select_membrane"
    /\ membrane' = NULLSEL
    /\ stderr' = Append(stderr, Msg("Could not understand the selection query", "", 0))
    /\ heap' = ReleaseAll(heap, <<"ndx_groups", "all", "system">>)
    /\ return_code' = 1
    /\ pc' = "exit"
    /\ UNCHANGED <<empty, output_file, system, ndx_groups, all, phosphates,
                   residue_names, lipids_leaflets, n_groups, residues, center, cg_i,
                   classification, output, w_i, w_sel, w_name, out, arguments, core_ran>>

\* main.c:225, 235-243: the membrane query selects no atom
SelectMembraneEmpty ==
    /\ pc = "select_membrane"
    /\ membrane' = Sel(<<>>)
    /\ stderr' = Append(stderr, Msg("No membrane lipids found", "", 0))
    /\ heap' = ReleaseAll(Acquire(heap, "membrane"),
                          <<"ndx_groups", "membrane", "system", "all">>)
    /\ return_code' = 1
    /\ pc' = "exit"
    /\ UNCHANGED <<empty, output_file, system, ndx_groups, all, phosphates,
                   residue_names, lipids_leaflets, n_groups, residues, center, cg_i,
                   classification, output, w_i, w_sel, w_name, out, arguments, core_ran>>

\* main.c:225: the membrane query selects some atoms
SelectMembrane ==
    /\ pc = "select_membrane"
    /\ \E m \in Selections :
          /\ Len(m.atoms) > 0
          /\ membrane' = m
    /\ heap' = Acquire(heap, "membrane")
    /\ pc' = "select_phosphates"
    /\ UNCHANGED <<empty, output_file, system, ndx_groups, all, phosphates,
                   residue_names, lipids_leaflets, n_groups, residues, center, cg_i,
                   classification, output, w_i, w_sel, w_name, out, stderr, arguments,
                   return_code, core_ran>>

\* main.c:246-256: the phosphate query cannot be parsed or selects no atom
SelectPhosphatesFail ==
    /\ pc = "select_phosphates"
    /\ \E p \in {NULLSEL, Sel(<<>>)} :
          /\ phosphates' = p
          /\ heap' = ReleaseAll(IF p.null THEN heap ELSE Acquire(heap, "phosphates"),
                                <<"ndx_groups", "phosphates", "membrane", "all", "system">>)
    /\ stderr' = Append(stderr, Msg("No phosphates found", "", 0))
    /\ return_code' = 1
    /\ pc' = "exit"
    /\ UNCHANGED <<empty, output_file, system, ndx_groups, all, membrane,
                   residue_names, lipids_leaflets, n_groups, residues, center, cg_i,
                   classification, output, w_i, w_sel, w_name, out, arguments, core_ran>>

\* main.c:246, 259: the phosphates are selected and the residue names collected
SelectPhosphates ==
    /\ pc = "select_phosphates"
    /\ \E p \in Selections :
          /\ Len(p.atoms) > 0
          /\ phosphates' = p
    /\ residue_names' = selection_getresnames(system, membrane)
    /\ heap' = Acquire(Acquire(heap, "phosphates"), "residue_names")
    /\ pc' = "create_groups"
    /\ UNCHANGED <<empty, output_file, system, ndx_groups, all, membrane,
                   lipids_leaflets, n_groups, residues, center, cg_i, classification,
                   output, w_i, w_sel, w_name, out, stderr, arguments, return_code,
                   core_ran>>

\* --------------------------------------------------------- create_groups
\* a classification that counts a phosphate at the center as upper
ClassifyCenterUpper(position, c) == IF distance1D(position, c) >= 0 THEN 1 ELSE 0

\* main.c:167: 1 -> upper, 0 -> lower
Classify(position, c) == IF distance1D(position, c) > 0 THEN 1 ELSE 0

\* a group index that leaves out the factor of two
GroupIndexPacked(index, class) == index + class

\* main.c:183: the ndx group of a residue
GroupIndex(index, class) == 2 * index + class

\* main.c:144 and 153: the tests on the number of phosphates of a residue
NoPhosphate(n) == n <= 0
MultiplePhosphatesOffByOne(n) == n > 2
MultiplePhosphates(n) == n > 1

\* a failing residue that leaves the split residues allocated
ResidueFailureCleanupLeaking(h) ==
    ReleaseAll(h, <<"phosphate", "allocated", "lipids_leaflets">>)

\* main.c:146-150, 155-159, 174-179: what a failing residue releases
ResidueFailureCleanup(h) ==
    ReleaseAll(h, <<"phosphate", "allocated", "residues", "lipids_leaflets">>)

\* main.c:264-268: create_groups returned 0
CreateGroupsFailed(msg, h, groups) ==
    /\ stderr' = stderr \o <<msg, Msg("Failed to create ndx groups", "", 0)>>
    /\ heap' = h
    /\ lipids_leaflets' = groups
    /\ n_groups' = 0
    /\ return_code' = 1
    /\ pc' = "main_end"

\* main.c:140, 145: the residue handled at index cg_i, its name and number
Residue == residues[cg_i + 1]
ResidueName == system.resname[Residue.atoms[1]]
ResidueNumber == system.resnum[Residue.atoms[1]]

\* main.c:112-136: the residues are split, the center is calculated (any
\* point of the box) and 2K empty groups are allocated.  Neither failure
\* (114-118, 122-126) can happen for the non-empty membrane main passes.
CreateGroups ==
    /\ pc = "create_groups"
    /\ core_ran' = TRUE
    /\ LET rs == selection_splitbyres(system, membrane)
       IN /\ residues' = rs
          /\ IF Len(rs) = 0
             THEN /\ CreateGroupsFailed(Msg("Could not split atoms based on residue number", "", 0),
                                       Release(Acquire(heap, "residues"), "residues"),
                                       lipids_leaflets)
                  /\ UNCHANGED <<center, cg_i>>
             ELSE IF Len(membrane.atoms) = 0
             THEN /\ CreateGroupsFailed(Msg("Could not calculate center of geometry", "", 0),
                                       Release(Acquire(heap, "residues"), "residues"),
                                       lipids_leaflets)
                  /\ UNCHANGED <<center, cg_i>>
             ELSE /\ \E c \in 0 .. (BoxZ - 1) : center' = c
                  /\ lipids_leaflets' =
                        [null |-> FALSE,
                         groups |-> [g \in 1 .. (2 * Len(residue_names)) |-> Sel(<<>>)]]
                  /\ heap' = Acquire(Acquire(Acquire(heap, "residues"),
                                             "lipids_leaflets"), "allocated")
                  /\ cg_i' = 0
                  /\ pc' = "cg_loop"
                  /\ UNCHANGED <<n_groups, stderr, return_code>>
    /\ UNCHANGED <<empty, output_file, system, ndx_groups, all, membrane, phosphates,
                   residue_names, classification, output, w_i, w_sel, w_name, out,
                   arguments>>

\* a residue without a phosphate is skipped instead of ending the run
CGNoPhosphateSkipped ==
    /\ pc = "cg_loop"
    /\ cg_i < Len(residues)
    /\ NoPhosphate(Len(selection_intersect(Residue, phosphates).atoms))
    /\ cg_i' = cg_i + 1
    /\ UNCHANGED <<pc, empty, output_file, system, ndx_groups, all, membrane, phosphates,
                   residue_names, lipids_leaflets, n_groups, residues, center,
                   classification, output, w_i, w_sel, w_name, out, stderr, arguments,
                   return_code, heap, core_ran>>

\* main.c:143-152: the residue has no phosphate
CGNoPhosphate ==
    /\ pc = "cg_loop"
    /\ cg_i < Len(residues)
    /\ NoPhosphate(Len(selection_intersect(Residue, phosphates).atoms))
    /\ CreateGroupsFailed(Msg("No phosphate detected for lipid", ResidueName, ResidueNumber),
                          ResidueFailureCleanup(Acquire(heap, "phosphate")),
                          NULLGROUPS)
    /\ UNCHANGED <<empty, output_file, system, ndx_groups, all, membrane, phosphates,
                   residue_names, residues, center, cg_i, classification, output, w_i,
                   w_sel, w_name, out, arguments, core_ran>>

\* main.c:143, 153-161: the residue has several phosphates
CGMultiplePhosphates ==
    /\ pc = "cg_loop"
    /\ cg_i < Len(residues)
    /\ ~NoPhosphate(Len(selection_intersect(Residue, phosphates).atoms))
    /\ MultiplePhosphates(Len(selection_intersect(Residue, phosphates).atoms))
    /\ CreateGroupsFailed(Msg("Multiple phosphates detected for lipid", ResidueName, ResidueNumber),
                          ResidueFailureCleanup(Acquire(heap, "phosphate")),
                          NULLGROUPS)
    /\ UNCHANGED <<empty, output_file, system, ndx_groups, all, membrane, phosphates,
                   residue_names, residues, center, cg_i, classification, output, w_i,
                   w_sel, w_name, out, arguments, core_ran>>

\* main.c:143, 163-185: the residue is classified and added to its group.
\* The residue name is always in the list main built from the same
\* selection, so the internal error of 171-181 cannot happen.
CGAssign ==
    /\ pc = "cg_loop"
    /\ cg_i < Len(residues)
    /\ LET phosphate == selection_intersect(Residue, phosphates)
           class == Classify(system.z[phosphate.atoms[1]], center)
           index == list_index(residue_names, ResidueName)
       IN /\ ~NoPhosphate(Len(phosphate.atoms))
          /\ ~MultiplePhosphates(Len(phosphate.atoms))
          /\ classification' = class
          /\ IF index < 0
             THEN /\ CreateGroupsFailed(Msg("Internal Error. Inconsistency in residue names",
                                           ResidueName, ResidueNumber),
                                       ResidueFailureCleanup(Acquire(heap, "phosphate")),
                                       NULLGROUPS)
                  /\ UNCHANGED cg_i
             ELSE /\ lipids_leaflets' =
                        [lipids_leaflets EXCEPT
                            !.groups[GroupIndex(index, class) + 1] = selection_add(@, Residue)]
                  /\ heap' = Release(Acquire(heap, "phosphate"), "phosphate")
                  /\ cg_i' = cg_i + 1
                  /\ UNCHANGED <<pc, n_groups, stderr, return_code>>
    /\ UNCHANGED <<empty, output_file, system, ndx_groups, all, membrane, phosphates,
                   residue_names, residues, center, output, w_i, w_sel, w_name, out,
                   arguments, core_ran>>

\* main.c:188-191, 264: every residue is assigned; create_groups returns 2K
CGReturn ==
    /\ pc = "cg_loop"
    /\ cg_i >= Len(residues)
    /\ heap' = ReleaseAll(heap, <<"allocated", "residues">>)
    /\ n_groups' = 2 * Len(residue_names)
    /\ pc' = "open_output"
    /\ UNCHANGED <<empty, output_file, system, ndx_groups, all, membrane, phosphates,
                   residue_names, lipids_leaflets, residues, center, cg_i,
                   classification, output, w_i, w_sel, w_name, out, stderr, arguments,
                   return_code, core_ran>>

\* ------------------------------------------------------- main: the output
\* main.c:273, 282: without -o the groups go to stdout
OpenOutputStdout ==
    /\ pc = "open_output"
    /\ output_file = "NULL"
    /\ output' = "stdout"
    /\ pc' = "write"
    /\ UNCHANGED <<empty, output_file, system, ndx_groups, all, membrane, phosphates,
                   residue_names, lipids_leaflets, n_groups, residues, center, cg_i,
                   classification, w_i, w_sel, w_name, out, stderr, arguments,
                   return_code, heap, core_ran>>

\* main.c:275-282: an existing file is opened for appending, a new one for
\* writing (the handle of the existence test is closed at once)
OpenOutputFile ==
    /\ pc = "open_output"
    /\ output_file # "NULL"
    /\ output' = "file"
    /\ heap' = Acquire(heap, "output")
    /\ pc' = "write"
    /\ UNCHANGED <<empty, output_file, system, ndx_groups, all, membrane, phosphates,
                   residue_names, lipids_leaflets, n_groups, residues, center, cg_i,
                   classification, w_i, w_sel, w_name, out, stderr, arguments,
                   return_code, core_ran>>

\* the failure to open the output file is reported but not returned
OpenOutputFailExitZero ==
    /\ pc = "open_output"
    /\ output_file # "NULL"
    /\ output' = "NULL"
    /\ stderr' = Append(stderr, Msg("The output ndx file could not be opened", "", 0))
    /\ pc' = "main_end"
    /\ UNCHANGED <<empty, output_file, system, ndx_groups, all, membrane, phosphates,
                   residue_names, lipids_leaflets, n_groups, residues, center, cg_i,
                   classification, w_i, w_sel, w_name, out, arguments, return_code,
                   heap, core_ran>>

\* main.c:275-286: the output file cannot be opened
OpenOutputFail ==
    /\ pc = "open_output"
    /\ output_file # "NULL"
    /\ output' = "NULL"
    /\ stderr' = Append(stderr, Msg("The output ndx file could not be opened", "", 0))
    /\ return_code' = 1
    /\ pc' = "main_end"
    /\ UNCHANGED <<empty, output_file, system, ndx_groups, all, membrane, phosphates,
                   residue_names, lipids_leaflets, n_groups, residues, center, cg_i,
                   classification, w_i, w_sel, w_name, out, arguments, heap, core_ran>>

\* empty groups are skipped whatever the option says
SkipGroupIgnoringOption(e, sel) == Len(sel.atoms) = 0

\* main.c:291: an empty group is written only with -e
SkipGroup(e, sel) == e = 0 /\ Len(sel.atoms) = 0

SkipEmptyGroup ==
    /\ pc = "write"
    /\ w_i < n_groups
    /\ SkipGroup(empty, lipids_leaflets.groups[w_i + 1])
    /\ w_i' = w_i + 1
    /\ UNCHANGED <<pc, empty, output_file, system, ndx_groups, all, membrane, phosphates,
                   residue_names, lipids_leaflets, n_groups, residues, center, cg_i,
                   classification, output, w_sel, w_name, out, stderr, arguments,
                   return_code, heap, core_ran>>

\* main.c:293-309: the group is named and written.  list_get cannot fail
\* for i / 2 < K, so the internal error of 295-300 cannot happen.
WriteGroup ==
    /\ pc = "write"
    /\ w_i < n_groups
    /\ ~SkipGroup(empty, lipids_leaflets.groups[w_i + 1])
    /\ LET resname == list_get(residue_names, w_i \div 2)
       IN IF resname = "NULL"
          THEN /\ stderr' = Append(stderr, Msg("Internal error. Reaching element of index", "", w_i \div 2))
               /\ return_code' = 1
               /\ pc' = "main_end"
               /\ UNCHANGED <<w_i, out>>
          ELSE /\ out' = write_ndx_group(out, group_name(resname, w_i),
                                         lipids_leaflets.groups[w_i + 1])
               /\ w_i' = w_i + 1
               /\ UNCHANGED <<pc, stderr, return_code>>
    /\ UNCHANGED <<empty, output_file, system, ndx_groups, all, membrane, phosphates,
                   residue_names, lipids_leaflets, n_groups, residues, center, cg_i,
                   classification, output, w_sel, w_name, arguments, heap, core_ran>>

\* main.c:313: all groups are written; a file is closed
CloseOutput ==
    /\ pc = "write"
    /\ w_i >= n_groups
    /\ heap' = IF output # "stdout" THEN Release(heap, "output") ELSE heap
    /\ pc' = "main_end"
    /\ UNCHANGED <<empty, output_file, system, ndx_groups, all, membrane, phosphates,
                   residue_names, lipids_leaflets, n_groups, residues, center, cg_i,
                   classification, output, w_i, w_sel, w_name, out, stderr, arguments,
                   return_code, core_ran>>

\* main.c:316-322: the common cleanup.  destroy_selections(NULL, 0) frees
\* nothing; a table pointer that is not NULL is freed
MainEndCleanup(h, groups) ==
    ReleaseAll(IF groups.null THEN Release(h, "residue_names")
               ELSE ReleaseAll(h, <<"residue_names", "lipids_leaflets">>),
               <<"ndx_groups", "phosphates", "membrane", "all", "system">>)

\* main.c:315-324: the common cleanup and the return
MainEnd ==
    /\ pc = "main_end"
    /\ heap' = MainEndCleanup(heap, lipids_leaflets)
    /\ pc' = "exit"
    /\ UNCHANGED <<empty, output_file, system, ndx_groups, all, membrane, phosphates,
                   residue_names, lipids_leaflets, n_groups, residues, center, cg_i,
                   classification, output, w_i, w_sel, w_name, out, stderr, arguments,
                   return_code, core_ran>>

Next ==
    \/ GetArgumentsFail \/ GetArguments
    \/ LoadGroFail \/ LoadGro
    \/ ReadNdx
    \/ SelectMembraneNull \/ SelectMembraneEmpty \/ SelectMembrane
    \/ SelectPhosphatesFail \/ SelectPhosphates
    \/ CreateGroups \/ CGNoPhosphate \/ CGMultiplePhosphates \/ CGAssign \/ CGReturn
    \/ OpenOutputStdout \/ OpenOutputFile \/ OpenOutputFail
    \/ SkipEmptyGroup \/ WriteGroup \/ CloseOutput
    \/ MainEnd

Spec == Init /\ [][Next]_vars

\* ------------------------------------------- write_ndx_group on its own
\* the selections written: n atoms, ascending, from two places of a large system
WriteSelections ==
    { Sel([k \in 1 .. n |-> first + stride * (k - 1)]) :
        n \in 0 .. MaxWriteAtoms, first \in {0, 9990}, stride \in {1, 3} }

WriteInit ==
    /\ pc = "w_header"
    /\ w_sel \in WriteSelections
    /\ w_name \in {group_name(r, i) : r \in ResidueNames, i \in {0, 1}}
    /\ Idle

\* main.c:94
WriteHeader ==
    /\ pc = "w_header"
    /\ out' = fprintf_header(out, w_name)
    /\ pc' = "w_loop"
    /\ UNCHANGED <<empty, output_file, system, ndx_groups, all, membrane, phosphates,
                   residue_names, lipids_leaflets, n_groups, residues, center, cg_i,
                   classification, output, w_i, w_sel, w_name, stderr, arguments,
                   return_code, heap, core_ran>>

\* main.c:95-99: one iteration of the loop
WriteAtom ==
    /\ pc = "w_loop"
    /\ w_i < Len(w_sel.atoms)
    /\ out' = write_atom(out, w_sel, w_i)
    /\ w_i' = w_i + 1
    /\ UNCHANGED <<pc, empty, output_file, system, ndx_groups, all, membrane, phosphates,
                   residue_names, lipids_leaflets, n_groups, residues, center, cg_i,
                   classification, output, w_sel, w_name, stderr, arguments,
                   return_code, heap, core_ran>>

\* main.c:95, 100: the loop ends and write_ndx_group returns
WriteReturn ==
    /\ pc = "w_loop"
    /\ w_i >= Len(w_sel.atoms)
    /\ pc' = "w_done"
    /\ UNCHANGED <<empty, output_file, system, ndx_groups, all, membrane, phosphates,
                   residue_names, lipids_leaflets, n_groups, residues, center, cg_i,
                   classification, output, w_i, w_sel, w_name, out, stderr, arguments,
                   return_code, heap, core_ran>>

WriteNext == WriteHeader \/ WriteAtom \/ WriteReturn

SpecWrite == WriteInit /\ [][WriteNext]_vars

\* ================================================================ claims
\* the phosphates of residue r (from 1) of the partition
Markers(r) == selection_intersect(residues[r], phosphates).atoms

\* signed periodic z-displacement of the phosphate of residue r from the center
Displacement(r) == distance1D(system.z[Markers(r)[1]], center)

LeafletBit(r) == IF Displacement(r) > 0 THEN 1 ELSE 0

SpeciesIndex(r) == list_index(residue_names, system.resname[residues[r].atoms[1]])

\* the residues with no or with several phosphates
BadResidues == {r \in 1 .. Len(residues) : Len(Markers(r)) # 1}

\* create_groups has returned the table and main has not yet released it
TableReturned == n_groups > 0 /\ heap["lipids_leaflets"] = "held"

\* C1: the residue create_groups classified last (residue cg_i) has exactly
\* one phosphate and got bit 1 if and only if the signed periodic
\* z-displacement of that phosphate from the center is > 0, and bit 0
\* otherwise, a displacement of exactly 0 included.
C1_StrictlyAboveCenterIsUpper ==
    (core_ran /\ cg_i > 0) =>
        /\ Len(Markers(cg_i)) = 1
        /\ (Displacement(cg_i) > 0 => classification = 1)
        /\ (Displacement(cg_i) <= 0 => classification = 0)

C1_Witness_AtCenterIsLower ==
    /\ core_ran /\ cg_i > 0
    /\ Displacement(cg_i) = 0
    /\ center > 0
    /\ classification = 0

\* C2: when create_groups has succeeded for K residue names, the table has
\* exactly 2K groups; every residue has all its atoms, in their original
\* order and once, in group 2*speciesIndex + leafletBit and none of them in
\* any other group; groups that got no residue are there and empty.
C2_GroupTable ==
    TableReturned =>
        /\ n_groups = 2 * Len(residue_names)
        /\ Len(lipids_leaflets.groups) = 2 * Len(residue_names)
        /\ \A r \in 1 .. Len(residues) :
              LET g == 2 * SpeciesIndex(r) + LeafletBit(r) + 1
                  own == Range(residues[r].atoms)
              IN /\ g \in 1 .. Len(lipids_leaflets.groups)
                 /\ SelectSeq2(lipids_leaflets.groups[g].atoms, own) = residues[r].atoms
                 /\ residues[r].atoms = SelectSeq2(membrane.atoms, own)
                 /\ \A h \in 1 .. Len(lipids_leaflets.groups) :
                       h # g => Range(lipids_leaflets.groups[h].atoms) \cap own = {}
        /\ \A g \in 1 .. Len(lipids_leaflets.groups) :
              Range(lipids_leaflets.groups[g].atoms) \subseteq Range(membrane.atoms)

C2_Witness_TwoSpeciesAnEmptyGroup ==
    /\ TableReturned
    /\ Len(residue_names) = 2
    /\ \E g \in 1 .. Len(lipids_leaflets.groups) : lipids_leaflets.groups[g].atoms = <<>>
    /\ \E r \in 1 .. Len(residues) :
          Len(residues[r].atoms) = 2 /\ SpeciesIndex(r) = 1 /\ LeafletBit(r) = 0

\* C3: a residue with no phosphate or with several is never passed over:
\* the loop does not get beyond the first such residue, and once
\* create_groups has failed on it the first message names the kind of
\* failure, the residue name and the residue number, create_groups has
\* returned 0 and the table is released and NULL.
C3_BadResidueAborts ==
    (core_ran /\ BadResidues # {}) =>
        LET r == CHOOSE x \in BadResidues : \A y \in BadResidues : x <= y
        IN /\ cg_i < r
           /\ pc \in {"cg_loop", "main_end", "exit"}
           /\ pc \in {"main_end", "exit"} =>
                 /\ cg_i = r - 1
                 /\ stderr[1] = [text |-> IF Len(Markers(r)) = 0
                                           THEN "No phosphate detected for lipid"
                                           ELSE "Multiple phosphates detected for lipid",
                                  resname |-> system.resname[residues[r].atoms[1]],
                                  resid |-> system.resnum[residues[r].atoms[1]]]
                 /\ n_groups = 0
                 /\ return_code = 1
                 /\ lipids_leaflets.null
                 /\ heap["lipids_leaflets"] = "freed"

C3_Witness_SecondResidueAmbiguous ==
    /\ pc = "exit"
    /\ core_ran
    /\ BadResidues = {2}
    /\ Len(Markers(2)) = 2
    /\ stderr[1].text = "Multiple phosphates detected for lipid"

\* C4: the output is opened and written only after every residue has been
\* classified: whenever the output has been opened or anything written,
\* every residue has exactly one phosphate and the loop of create_groups
\* is complete; in a run with a core error nothing is opened or written.
C4_NoOutputBeforeAllClassified ==
    /\ (out # <<>> \/ output \in {"stdout", "file"} \/ heap["output"] # "unacquired") =>
          /\ core_ran
          /\ BadResidues = {}
          /\ cg_i = Len(residues)
          /\ TableReturned \/ pc = "exit"
    /\ (core_ran /\ BadResidues # {}) =>
          /\ out = <<>>
          /\ output = "unset"
          /\ heap["output"] = "unacquired"
    /\ (arguments = 0 /\ pc = "exit" /\ ~core_ran) => (out = <<>> /\ output = "unset")

C4_Witness_FailedAfterOneAssigned ==
    /\ pc = "exit"
    /\ BadResidues # {}
    /\ cg_i = 1
    /\ output_file = "out.ndx"
    /\ out = <<>>

\* ------------------------------------------------ the output as written
\* the header line of group i (from 0)
HeaderOf(i) ==
    "[ " \o residue_names[(i \div 2) + 1] \o (IF i % 2 = 0 THEN "_lower" ELSE "_upper")
         \o " ]\n"

GroupIndices == 0 .. (2 * Len(residue_names) - 1)

IsHeader(chunk) == \E i \in GroupIndices : chunk = HeaderOf(i)
IsNumber(chunk) == ~IsHeader(chunk) /\ chunk # "\n"

\* the text of an atom number in the output
NumberText(a) == Pad4(ToString(a + 1)) \o " "

\* where the header of group i stands in the output, 0 if it is not there
HeaderAt(i) ==
    IF \E k \in 1 .. Len(out) : out[k] = HeaderOf(i)
    THEN CHOOSE k \in 1 .. Len(out) : out[k] = HeaderOf(i)
    ELSE 0

\* what follows the header at position k up to the next header
SectionAfter(k) ==
    LET later == {j \in (k + 1) .. Len(out) : IsHeader(out[j])}
        stop == IF later = {} THEN Len(out) + 1
                ELSE CHOOSE j \in later : \A x \in later : j <= x
    IN SubSeq(out, k + 1, stop - 1)

Succeeded == pc \in {"main_end", "exit"} /\ return_code = 0

ToBeWritten(i) == empty = 1 \/ Len(lipids_leaflets.groups[i + 1].atoms) > 0

\* the group indices from i on, in ascending order, that are to be written
RECURSIVE WrittenFrom(_)
WrittenFrom(i) ==
    IF i >= 2 * Len(residue_names) THEN <<>>
    ELSE (IF ToBeWritten(i) THEN <<i>> ELSE <<>>) \o WrittenFrom(i + 1)

\* C5: after a successful run the headers in the output are exactly those
\* of the groups that hold an atom when the option is off, and those of all
\* 2K groups when it is on; the header of an empty group is followed by no
\* atom line, that of any other group by at least one.
C5_EmptyGroupsOnlyWithOption ==
    Succeeded =>
        /\ SelectSeq(out, IsHeader)
             = [k \in 1 .. Len(WrittenFrom(0)) |-> HeaderOf(WrittenFrom(0)[k])]
        /\ \A i \in GroupIndices :
              /\ (empty = 0 /\ lipids_leaflets.groups[i + 1].atoms = <<>>) => HeaderAt(i) = 0
              /\ (empty = 1 \/ lipids_leaflets.groups[i + 1].atoms # <<>>) => HeaderAt(i) > 0
              /\ HeaderAt(i) > 0 =>
                    (SectionAfter(HeaderAt(i)) = <<>>
                        <=> lipids_leaflets.groups[i + 1].atoms = <<>>)
        /\ empty = 1 => Len(SelectSeq(out, IsHeader)) = 2 * Len(residue_names)

C5_Witness_EmptyGroupWritten ==
    /\ pc = "exit" /\ return_code = 0
    /\ empty = 1
    /\ \E i \in GroupIndices :
          /\ lipids_leaflets.groups[i + 1].atoms = <<>>
          /\ HeaderAt(i) > 0
          /\ HeaderAt(i) < Len(out)
          /\ SectionAfter(HeaderAt(i)) = <<>>

C5_Witness_EmptyGroupOmitted ==
    /\ pc = "exit" /\ return_code = 0
    /\ empty = 0
    /\ out # <<>>
    /\ \E i \in GroupIndices : lipids_leaflets.groups[i + 1].atoms = <<>> /\ HeaderAt(i) = 0

\* the fatal conditions of a run, as its last state shows them (a pointer
\* is NULL before its assignment too, hence the position)
ArgumentsRejected == arguments = 1
StructureNotLoaded == pc = "exit" /\ arguments = 0 /\ system.null
MembraneQueryNotParsed == pc = "exit" /\ ~system.null /\ membrane.null
MembraneEmpty == ~membrane.null /\ membrane.atoms = <<>>
PhosphateQueryNotParsed ==
    pc = "exit" /\ ~membrane.null /\ membrane.atoms # <<>> /\ phosphates.null
PhosphatesEmpty == ~phosphates.null /\ phosphates.atoms = <<>>
CreateGroupsFailure == core_ran /\ BadResidues # {}
OutputNotOpened == output = "NULL"

FatalCondition ==
    \/ ArgumentsRejected \/ StructureNotLoaded
    \/ MembraneQueryNotParsed \/ MembraneEmpty
    \/ PhosphateQueryNotParsed \/ PhosphatesEmpty
    \/ CreateGroupsFailure \/ OutputNotOpened

\* C6: the exit code is 0 if and only if the run met no fatal condition
\* (rejected arguments, structure not loaded, a query not parsed, an empty
\* membrane or phosphate selection, a failure of create_groups, an output
\* file that cannot be opened), and is then reached with every group
\* written; whether the index file could be read plays no part.
C6_ExitCodeZeroIffNoFatalCondition ==
    pc = "exit" =>
        /\ return_code = 0 <=> ~FatalCondition
        /\ return_code \in {0, 1}
        /\ return_code = 0 => (w_i = n_groups /\ n_groups > 0 /\ output \in {"stdout", "file"})

C6_Witness_NoIndexFileExitZero ==
    /\ pc = "exit"
    /\ return_code = 0
    /\ ndx_groups = "NULL"
    /\ output = "file"

C6_Witness_OutputNotOpenedExitOne ==
    /\ pc = "exit"
    /\ return_code = 1
    /\ OutputNotOpened
    /\ ndx_groups = "dict"

\* C7: no resource is ever released twice or lost while held, and when
\* the process returns every resource acquired has been released.
C7_EveryResourceReleasedOnce ==
    /\ \A r \in Resources : heap[r] \in {"unacquired", "held", "freed"}
    /\ pc = "exit" => \A r \in Resources : heap[r] \in {"unacquired", "freed"}
    /\ pc = "exit" =>
          /\ ~system.null => heap["system"] = "freed"
          /\ ndx_groups = "dict" => heap["ndx_groups"] = "freed"
          /\ ~membrane.null => heap["membrane"] = "freed"
          /\ ~phosphates.null => heap["phosphates"] = "freed"
          /\ core_ran => (heap["residues"] = "freed" /\ heap["lipids_leaflets"] = "freed"
                            /\ heap["allocated"] = "freed" /\ heap["phosphate"] = "freed"
                            /\ heap["residue_names"] = "freed")
          /\ output = "file" => heap["output"] = "freed"

C7_Witness_FailedResidueAllReleased ==
    /\ pc = "exit"
    /\ BadResidues # {}
    /\ cg_i > 0
    /\ ndx_groups = "dict"
    /\ \A r \in Resources \ {"output"} : heap[r] = "freed"

C7_Witness_FileWrittenAllReleased ==
    /\ pc = "exit"
    /\ return_code = 0
    /\ \A r \in Resources : heap[r] = "freed"

\* C8 as claimed: every collaborator failure (structure not loaded, query
\* not parsed, output file not opened) is found before create_groups starts.
C8_Original_EveryFailureBeforeCore ==
    (StructureNotLoaded \/ MembraneQueryNotParsed \/ PhosphateQueryNotParsed
        \/ OutputNotOpened) => ~core_ran

\* C8 amended: a structure that cannot be loaded and a query that cannot be
\* parsed end the run before create_groups starts; an output file that
\* cannot be opened is found only after create_groups has succeeded, and
\* ends the run before any group is written.
C8_InputFailuresBeforeCoreOutputAfter ==
    /\ (StructureNotLoaded \/ MembraneQueryNotParsed \/ PhosphateQueryNotParsed) =>
          (~core_ran /\ out = <<>> /\ return_code = 1)
    /\ OutputNotOpened =>
          /\ core_ran
          /\ BadResidues = {}
          /\ cg_i = Len(residues)
          /\ out = <<>>
          /\ pc \in {"main_end", "exit"}
          /\ return_code = 1

C8_Witness_OutputNotOpenedAfterCore ==
    /\ pc = "exit"
    /\ OutputNotOpened
    /\ core_ran
    /\ Len(residues) = 2

C8_Witness_QueryNotParsedBeforeCore ==
    /\ pc = "exit"
    /\ PhosphateQueryNotParsed
    /\ ~core_ran

\* the atoms of the residues assigned to group i, residue after residue in
\* the order of the partition
RECURSIVE AtomsOfGroupFrom(_, _)
AtomsOfGroupFrom(r, i) ==
    IF r > Len(residues) THEN <<>>
    ELSE (IF 2 * SpeciesIndex(r) + LeafletBit(r) = i THEN residues[r].atoms ELSE <<>>)
            \o AtomsOfGroupFrom(r + 1, i)

\* position in the membrane selection of the first atom of a residue name
FirstAtomNamed(name) ==
    CHOOSE k \in 1 .. Len(membrane.atoms) :
        /\ system.resname[membrane.atoms[k]] = name
        /\ \A j \in 1 .. (k - 1) : system.resname[membrane.atoms[j]] # name

\* C9: after a successful run the headers stand in the order of the group
\* index: residue names in the order of their first occurrence in the
\* membrane selection, for each name _lower before _upper; the numbers
\* under a header are the atoms of the residues of that group, residue
\* after residue in the order of the partition.
C9_DeterministicOrder ==
    Succeeded =>
        /\ \A i, j \in GroupIndices :
              (i < j /\ HeaderAt(i) > 0 /\ HeaderAt(j) > 0) => HeaderAt(i) < HeaderAt(j)
        /\ \A i \in GroupIndices :
              HeaderAt(i) > 0 =>
                  SelectSeq(SectionAfter(HeaderAt(i)), IsNumber)
                    = [k \in 1 .. Len(AtomsOfGroupFrom(1, i)) |->
                          NumberText(AtomsOfGroupFrom(1, i)[k])]
        /\ \A r \in 1 .. Len(residues) :
              HeaderAt(2 * SpeciesIndex(r) + LeafletBit(r)) > 0
        /\ \A a, b \in 1 .. Len(residue_names) :
              a < b => FirstAtomNamed(residue_names[a]) < FirstAtomNamed(residue_names[b])
        /\ Len(SelectSeq(out, IsNumber)) = Len(membrane.atoms)

C9_Witness_TwoResiduesInOneGroup ==
    /\ pc = "exit" /\ return_code = 0
    /\ residue_names = <<"POPG">>
    /\ AtomsOfGroupFrom(1, 1) = <<0, 2, 1>>
    /\ out = <<"[ POPG_upper ]\n", "   1 ", "   3 ", "   2 ", "\n">>

\* the number lines of a selection: PerLine numbers on each line but the last
ExpectedLine(sel, l) ==
    LET from == PerLine * (l - 1) + 1
        to == IF PerLine * l < Len(sel.atoms) THEN PerLine * l ELSE Len(sel.atoms)
    IN [k \in 1 .. (to - from + 1) |-> NumberText(sel.atoms[from + k - 1])] \o <<"\n">>

RECURSIVE ExpectedLines(_, _, _)
ExpectedLines(sel, l, n) ==
    IF l > n THEN <<>> ELSE ExpectedLine(sel, l) \o ExpectedLines(sel, l + 1, n)

\* C10: write_ndx_group writes the header line "[ name ]" and then the
\* atom numbers (from 1) in the order of the group, 15 on every line but
\* possibly the last, ceil(n / 15) lines in all (none for n = 0), each
\* ended by a newline.
C10_FifteenNumbersPerLine ==
    pc = "w_done" =>
        LET n == Len(w_sel.atoms)
            lines == (n + PerLine - 1) \div PerLine
        IN /\ out = <<"[ " \o w_name \o " ]\n">> \o ExpectedLines(w_sel, 1, lines)
           /\ Len(SelectSeq(out, LAMBDA c : c = "\n")) = lines
           /\ n > 0 => out[Len(out)] = "\n"
           /\ n = 0 => Len(out) = 1

C10_Witness_FullLinesAndAShortOne ==
    /\ pc = "w_done"
    /\ Len(w_sel.atoms) = 2 * PerLine + 1
    /\ Len(SelectSeq(out, LAMBDA c : c = "\n")) = 3
    /\ out[Len(out) - 1] = "10021 "

====
